---- MODULE Spec2Model ----
(***************************************************************************)
(* NOT_STISLA anchor-table search engine (src/src/not_stisla.c).           *)
(*                                                                         *)
(* Widths.  The C code works on int64_t values and size_t indices (both    *)
(* 64 bits) and interpolates in __int128.  The model keeps the same        *)
(* relation between the widths at a smaller scale: a size_t is an integer  *)
(* modulo SizeMod = 2^SizeBits, an int64_t is a signed integer of the same *)
(* width, and the wide intermediate arithmetic is exact.                   *)
(*                                                                         *)
(* Memory.  table.anchors is the anchor buffer: slots below table.size    *)
(* hold the anchors, the slots above hold what the memory held when       *)
(* malloc returned the buffer, or what was last written there (stale      *)
(* anchors survive a reset).  A slot beyond the buffer yields a value     *)
(* chosen by the environment at the call (the input g); an array cell at  *)
(* or above n yields what the memory after the array holds (arr.after).   *)
(***************************************************************************)
EXTENDS Integers, Sequences, FiniteSets

VARIABLES table, call, results

vars == <<table, call, results>>

-----------------------------------------------------------------------------
(* Widths and program constants *)

SizeBits == 8
SizeMod == 2 ^ SizeBits
SIZE_MAX == SizeMod - 1
INT64_MIN == -(2 ^ (SizeBits - 1))
INT64_MAX == (2 ^ (SizeBits - 1)) - 1

NOT_STISLA_NOT_FOUND == SIZE_MAX
NOT_STISLA_MAX_ANCHORS == 16
NOT_STISLA_CHUNK_SIZE == 4
SmallArrayLimit == 32
InitialCapacity == 8
EphemeralCapacity == 2
WORKLOAD_NONE == -1
NOT_STISLA_WORKLOAD_TELEMETRY == 0
NOT_STISLA_WORKLOAD_IDS == 1
NOT_STISLA_WORKLOAD_OFFSETS == 2
NOT_STISLA_WORKLOAD_EVENTS == 3

\* A null pointer argument (array, key list, result buffer or table)
NullArray == [null |-> TRUE, data |-> <<>>, after |-> 0]
NullTable == [null |-> TRUE]

ToSize(x) == x % SizeMod
ToInt64(u) == IF (u % SizeMod) >= 2 ^ (SizeBits - 1) THEN (u % SizeMod) - SizeMod ELSE u % SizeMod

Abs(x) == IF x < 0 THEN -x ELSE x
\* C division truncates toward zero
TruncDiv(a, b) == IF (a >= 0) = (b > 0) THEN Abs(a) \div Abs(b) ELSE -(Abs(a) \div Abs(b))

Anchor(v, i) == [v |-> v, i |-> i]

\* arr[i] for a 0-based index; a cell at or above n is outside the array
ArrAt(arr, n, i, oob) == IF i < n THEN arr[i + 1] ELSE oob

-----------------------------------------------------------------------------
(* ChunkedScan *)

RECURSIVE scan_from(_, _, _, _)
scan_from(arr, i, n, key) ==
    IF i >= n THEN NOT_STISLA_NOT_FOUND
    ELSE IF arr[i + 1] = key THEN i
    ELSE scan_from(arr, i + 1, n, key)

RECURSIVE chunk_loop(_, _, _, _)
chunk_loop(arr, chunk, full_chunks, key) ==
    IF chunk >= full_chunks THEN NOT_STISLA_NOT_FOUND
    ELSE LET base == chunk * NOT_STISLA_CHUNK_SIZE
             hit == scan_from(arr, base, base + NOT_STISLA_CHUNK_SIZE, key)
         IN IF hit # NOT_STISLA_NOT_FOUND THEN hit
            ELSE chunk_loop(arr, chunk + 1, full_chunks, key)

\* A scan that ends with the last full chunk
chunked_search_no_remainder(arr, n, key) ==
    IF n <= NOT_STISLA_CHUNK_SIZE THEN scan_from(arr, 0, n, key)
    ELSE chunk_loop(arr, 0, n \div NOT_STISLA_CHUNK_SIZE, key)

not_stisla_chunked_search(arr, n, key) ==
    IF n <= NOT_STISLA_CHUNK_SIZE THEN scan_from(arr, 0, n, key)
    ELSE LET full_chunks == n \div NOT_STISLA_CHUNK_SIZE
             hit == chunk_loop(arr, 0, full_chunks, key)
         IN IF hit # NOT_STISLA_NOT_FOUND THEN hit
            ELSE scan_from(arr, full_chunks * NOT_STISLA_CHUNK_SIZE, n, key)

-----------------------------------------------------------------------------
(* AnchorLocator *)

RECURSIVE anchor_lower_loop(_, _, _, _)
anchor_lower_loop(anchors, lo, hi, x) ==
    IF lo + 1 < hi
    THEN LET mid == lo + ((hi - lo) \div 2)
         IN IF anchors[mid + 1].v <= x
            THEN anchor_lower_loop(anchors, mid, hi, x)
            ELSE anchor_lower_loop(anchors, lo, mid, x)
    ELSE lo

not_stisla_anchor_lower(t, x) ==
    IF t.size = 0 THEN 0
    ELSE LET lo == 0
             hi == t.size - 1
             a == t.anchors
         IN CASE hi - lo = 0 -> IF a[lo + 1].v <= x THEN lo ELSE 0
              [] hi - lo = 1 -> IF a[lo + 1].v <= x
                                THEN (IF a[hi + 1].v <= x THEN hi ELSE lo)
                                ELSE 0
              [] hi - lo = 2 -> IF a[lo + 2].v <= x
                                THEN (IF a[hi + 1].v <= x THEN hi ELSE lo + 1)
                                ELSE IF a[lo + 1].v <= x THEN lo
                                ELSE 0
              [] OTHER -> anchor_lower_loop(a, lo, hi, x)

-----------------------------------------------------------------------------
(* Interpolator *)

not_stisla_interpolate(l_val, r_val, l_idx, r_idx, key) ==
    LET span == ToSize(r_idx - l_idx)
    IN IF r_val = l_val THEN ToInt64(l_idx)
       ELSE LET key_offset == key - l_val
                range == r_val - l_val
                frac == TruncDiv(key_offset * span, range)
                result == l_idx + frac
            IN IF result < 0 THEN 0
               ELSE IF ToSize(result) > r_idx THEN ToInt64(r_idx)
               ELSE ToInt64(result)

-----------------------------------------------------------------------------
(* BoundedLocalSearch *)

RECURSIVE local_search_loop(_, _, _, _, _, _)
local_search_loop(arr, n, lo, hi, key, oob) ==
    IF lo > hi THEN NOT_STISLA_NOT_FOUND
    ELSE LET mid == lo + ((hi - lo) \div 2)
             val == ArrAt(arr, n, mid, oob)
         IN IF val < key THEN local_search_loop(arr, n, ToSize(mid + 1), hi, key, oob)
            ELSE IF val > key
                 THEN (IF mid = 0 THEN NOT_STISLA_NOT_FOUND
                       ELSE local_search_loop(arr, n, lo, mid - 1, key, oob))
            ELSE mid

\* Line 164: the bounds check that returns NOT_FOUND before the loop
local_search_rejects(arr, n, lo, hi, key, oob) ==
    lo >= hi \/ ArrAt(arr, n, lo, oob) > key \/ ArrAt(arr, n, hi, oob) < key

not_stisla_local_search(arr, n, lo, hi, key, oob) ==
    IF local_search_rejects(arr, n, lo, hi, key, oob)
    THEN NOT_STISLA_NOT_FOUND
    ELSE local_search_loop(arr, n, lo, hi, key, oob)

\* The array indices the loop of lines 169-181 reads
RECURSIVE LocalSearchLoopReads(_, _, _, _, _, _)
LocalSearchLoopReads(arr, n, lo, hi, key, oob) ==
    IF lo > hi THEN {}
    ELSE LET mid == lo + ((hi - lo) \div 2)
             val == ArrAt(arr, n, mid, oob)
         IN {mid} \cup
            (IF val < key THEN LocalSearchLoopReads(arr, n, ToSize(mid + 1), hi, key, oob)
             ELSE IF val > key /\ mid # 0
                  THEN LocalSearchLoopReads(arr, n, lo, mid - 1, key, oob)
             ELSE {})

\* The array indices not_stisla_local_search reads: the bounds check of
\* line 164 stops at its first true operand
LocalSearchReads(arr, n, lo, hi, key, oob) ==
    IF lo >= hi THEN {}
    ELSE IF ArrAt(arr, n, lo, oob) > key THEN {lo}
    ELSE IF ArrAt(arr, n, hi, oob) < key THEN {lo, hi}
    ELSE {lo, hi} \cup LocalSearchLoopReads(arr, n, lo, hi, key, oob)

-----------------------------------------------------------------------------
(* AnchorTable *)

\* The table not_stisla_anchor_table_create returns: a buffer of 8 slots
\* that malloc does not initialise (buf is what they hold), no anchors,
\* workload type -1.
not_stisla_anchor_table_create(buf) ==
    [null |-> FALSE, anchors |-> buf, capacity |-> InitialCapacity, size |-> 0,
     searches_performed |-> 0, workload_type |-> WORKLOAD_NONE]

\* The call-local table not_stisla_search builds when it is given none
local_table ==
    [null |-> FALSE, anchors |-> <<>>, capacity |-> 0, size |-> 0,
     searches_performed |-> 0, workload_type |-> WORKLOAD_NONE]

\* A reset that clears the anchor count only
reset_keeps_counter(t) ==
    IF t.null THEN t
    ELSE [t EXCEPT !.size = 0]

not_stisla_anchor_table_reset(t) ==
    IF t.null THEN t
    ELSE [t EXCEPT !.size = 0, !.searches_performed = 0]

\* Returns the pair <<success, table>>
not_stisla_init_for_dsmil(t, workload_type) ==
    IF t.null THEN <<FALSE, t>>
    ELSE <<TRUE, not_stisla_anchor_table_reset([t EXCEPT !.workload_type = workload_type])>>

\* anchors[k] as the code reads it: slot k of the buffer, whatever table.size
\* is.  A slot beyond the buffer yields g.
ReadAnchor(t, k, g) ==
    IF k < Len(t.anchors) THEN t.anchors[k + 1] ELSE g

-----------------------------------------------------------------------------
(* Learning Policy *)

MaxAnchors(workload_type) ==
    CASE workload_type = NOT_STISLA_WORKLOAD_TELEMETRY -> 12
      [] workload_type = NOT_STISLA_WORKLOAD_IDS -> 8
      [] workload_type = NOT_STISLA_WORKLOAD_OFFSETS -> 20
      [] workload_type = NOT_STISLA_WORKLOAD_EVENTS -> 16
      [] OTHER -> NOT_STISLA_MAX_ANCHORS

RECURSIVE insertion_point(_, _, _, _)
insertion_point(anchors, pos, size, value) ==
    IF pos < size /\ anchors[pos + 1].v < value
    THEN insertion_point(anchors, pos + 1, size, value)
    ELSE pos

\* The buffer after the memmove and the store at pos: slots below pos keep
\* their anchors, slots pos .. size-1 move up by one, slots above size keep
\* their stale contents.
InsertAt(anchors, size, pos, a) ==
    SubSeq(anchors, 1, pos) \o <<a>> \o SubSeq(anchors, pos + 1, size)
        \o SubSeq(anchors, size + 2, Len(anchors))

\* A learning step without its two early returns: it inserts whatever the
\* prediction error and the anchor count are
learn_anchor_unguarded(t, value, index, pred, tol, allocOk) ==
    IF t.null THEN t
    ELSE IF t.size >= t.capacity /\ ~allocOk THEN t
    ELSE [t EXCEPT !.capacity = IF t.size >= t.capacity THEN t.capacity * 2 ELSE t.capacity,
                   !.anchors = InsertAt(t.anchors, t.size,
                                        insertion_point(t.anchors, 0, t.size, value),
                                        Anchor(value, index)),
                   !.size = t.size + 1]

\* A learning step that stores the new anchor at its position without
\* moving the anchors above it
learn_anchor_without_shift(t, value, index, pred, tol, allocOk) ==
    IF t.null THEN t
    ELSE LET pred_diff == IF pred > index THEN pred - index ELSE index - pred
             pos == insertion_point(t.anchors, 0, t.size, value)
         IN IF pred_diff <= tol THEN t
            ELSE IF t.size >= MaxAnchors(t.workload_type) THEN t
            ELSE IF t.size >= t.capacity THEN t
            ELSE [t EXCEPT !.anchors[pos + 1] = Anchor(value, index),
                           !.size = t.size + 1]

not_stisla_learn_anchor(t, value, index, pred, tol, allocOk) ==
    IF t.null THEN t
    ELSE LET pred_diff == IF pred > index THEN pred - index ELSE index - pred
             max_anchors == MaxAnchors(t.workload_type)
             grow == t.size >= t.capacity
             new_cap == IF t.capacity # 0 THEN t.capacity * 2 ELSE 8
             pos == insertion_point(t.anchors, 0, t.size, value)
         IN IF pred_diff <= tol THEN t
            ELSE IF t.size >= max_anchors THEN t
            ELSE IF grow /\ ~allocOk THEN t
            ELSE [t EXCEPT !.capacity = IF grow THEN new_cap ELSE t.capacity,
                           !.anchors = InsertAt(t.anchors, t.size, pos, Anchor(value, index)),
                           !.size = t.size + 1]

-----------------------------------------------------------------------------
(* SearchEngine *)

\* A seeding step that stores the endpoints in the opposite order
SeedEndpointsSwapped(t, arr, n) ==
    [t EXCEPT !.capacity = IF t.capacity = 0 THEN EphemeralCapacity ELSE t.capacity,
              !.anchors = <<Anchor(arr[n], n - 1), Anchor(arr[1], 0)>>
                              \o SubSeq(t.anchors, 3, Len(t.anchors)),
              !.size = 2]

\* Lines 262-273: the endpoints of the array become anchors 0 and 1
SeedEndpoints(t, arr, n) ==
    [t EXCEPT !.capacity = IF t.capacity = 0 THEN EphemeralCapacity ELSE t.capacity,
              !.anchors = <<Anchor(arr[1], 0), Anchor(arr[n], n - 1)>>
                              \o SubSeq(t.anchors, 3, Len(t.anchors)),
              !.size = 2]

\* Lines 283-294: the window [lo, hi] around pred, in size_t arithmetic
search_window(pred, l_i, r_i, tol) ==
    LET lo0 == IF pred > tol THEN pred - tol ELSE l_i
        lo1 == IF lo0 > l_i THEN lo0 ELSE l_i
        hi0 == ToSize(pred + tol)
        hi1 == IF hi0 < r_i THEN hi0 ELSE r_i
    IN [lo |-> IF lo1 > hi1 THEN l_i ELSE lo1,
        hi |-> IF lo1 > hi1 THEN r_i ELSE hi1]

\* Lines 275-294: bounding anchors, prediction and search window
SearchWindow(active, key, tol, g) ==
    LET a_idx == not_stisla_anchor_lower(active, key)
        l == ReadAnchor(active, a_idx, g)
        r == ReadAnchor(active, a_idx + 1, g)
        pred == ToSize(not_stisla_interpolate(l.v, r.v, l.i, r.i, key))
        w == search_window(pred, l.i, r.i, tol)
    IN [a_idx |-> a_idx, l |-> l, r |-> r, pred |-> pred, lo |-> w.lo, hi |-> w.hi]

\* A final step that learns but leaves the search counter alone
SearchFinishUncounted(arr, n, t, active, pred, result, tol, oob, allocOk) ==
    IF result # NOT_STISLA_NOT_FOUND /\ ~t.null
    THEN [ret |-> result,
          table |-> not_stisla_learn_anchor(active, ArrAt(arr.data, n, result, oob),
                                            result, pred, tol, allocOk)]
    ELSE [ret |-> result, table |-> IF t.null THEN t ELSE active]

\* Lines 298-304: learning and the search counter, on the caller's table
\* only.  active is the table after seeding (the caller's own table when
\* one was given).
SearchFinish(arr, n, t, active, pred, result, tol, oob, allocOk) ==
    IF result # NOT_STISLA_NOT_FOUND /\ ~t.null
    THEN [ret |-> result,
          table |-> [not_stisla_learn_anchor(active, ArrAt(arr.data, n, result, oob),
                                             result, pred, tol, allocOk)
                        EXCEPT !.searches_performed = ToSize(@ + 1)]]
    ELSE [ret |-> result, table |-> IF t.null THEN t ELSE active]

\* Line 296: the local search on the window w
SearchLocal(arr, n, key, t, active, w, tol, oob, allocOk) ==
    SearchFinish(arr, n, t, active, w.pred,
                 not_stisla_local_search(arr.data, n, w.lo, w.hi, key, oob),
                 tol, oob, allocOk)

\* Lines 248-259: the table the engine works on, before seeding
ActiveBefore(t) == IF t.null THEN local_table ELSE t

\* Lines 261-273: the active table after the seeding step
ActiveTable(arr, n, t) ==
    IF ActiveBefore(t).size = 0
    THEN SeedEndpoints(ActiveBefore(t), arr.data, n)
    ELSE ActiveBefore(t)

SearchInterpolated(arr, n, key, t, active, tol, g, oob, allocOk) ==
    SearchLocal(arr, n, key, t, active, SearchWindow(active, key, tol, g), tol, oob, allocOk)

\* A search that seeds the caller's table before it looks at n
search_seed_first(arr, n, key, t, tol, g, oob, allocOk) ==
    IF arr.null \/ n = 0 THEN [ret |-> NOT_STISLA_NOT_FOUND, table |-> t]
    ELSE IF n < SmallArrayLimit
    THEN [ret |-> not_stisla_chunked_search(arr.data, n, key),
          table |-> IF t.null THEN t ELSE ActiveTable(arr, n, t)]
    ELSE SearchInterpolated(arr, n, key, t, ActiveTable(arr, n, t), tol, g, oob, allocOk)

\* Returns [ret, table]: the result and the caller's table after the call.
\* arr is [null, data]; t is the caller's table or NullTable; g, oob and
\* allocOk are the environment's part of the call: what an anchor slot
\* outside the initialised buffer holds, what an array cell at or above n
\* holds, and whether malloc/realloc succeed.
not_stisla_search(arr, n, key, t, tol, g, oob, allocOk) ==
    IF arr.null \/ n = 0 THEN [ret |-> NOT_STISLA_NOT_FOUND, table |-> t]
    ELSE IF n < SmallArrayLimit
    THEN [ret |-> not_stisla_chunked_search(arr.data, n, key), table |-> t]
    ELSE IF ActiveBefore(t).size = 0 /\ ActiveBefore(t).capacity = 0 /\ ~allocOk
    THEN [ret |-> NOT_STISLA_NOT_FOUND, table |-> t]
    ELSE SearchInterpolated(arr, n, key, t, ActiveTable(arr, n, t), tol, g, oob, allocOk)

\* Returns [found, results, table]; keys and results are [null, data]
RECURSIVE batch_loop(_, _, _, _, _, _, _, _, _, _, _, _)
\* A loop body that counts every key, found or not
batch_step_count_all(arr, n, keys, num_keys, i, found, results_data, res, tol, g, oob, allocOk) ==
    batch_loop(arr, n, keys, num_keys, i + 1, found + 1,
               [results_data EXCEPT ![i + 1] = res.ret],
               res.table, tol, g, oob, allocOk)

\* A loop body that leaves the loop at the first key that is not found
batch_step_stop_on_miss(arr, n, keys, num_keys, i, found, results_data, res, tol, g, oob, allocOk) ==
    IF res.ret = NOT_STISLA_NOT_FOUND
    THEN [found |-> found, results |-> [results_data EXCEPT ![i + 1] = res.ret],
          table |-> res.table]
    ELSE batch_loop(arr, n, keys, num_keys, i + 1, found + 1,
                    [results_data EXCEPT ![i + 1] = res.ret],
                    res.table, tol, g, oob, allocOk)

\* Lines 349-352: results[i] is stored and counted, the table carries on
batch_step(arr, n, keys, num_keys, i, found, results_data, res, tol, g, oob, allocOk) ==
    batch_loop(arr, n, keys, num_keys, i + 1,
               IF res.ret # NOT_STISLA_NOT_FOUND THEN found + 1 ELSE found,
               [results_data EXCEPT ![i + 1] = res.ret],
               res.table, tol, g, oob, allocOk)

batch_loop(arr, n, keys, num_keys, i, found, results_data, t, tol, g, oob, allocOk) ==
    IF i >= num_keys THEN [found |-> found, results |-> results_data, table |-> t]
    ELSE batch_step(arr, n, keys, num_keys, i, found, results_data,
                    not_stisla_search(arr, n, keys[i + 1], t, tol, g, oob, allocOk),
                    tol, g, oob, allocOk)

\* A batch search that checks the array and the key list only
batch_search_unchecked(arr, n, keys, num_keys, res_buf, t, tol, g, oob, allocOk) ==
    IF arr.null \/ keys.null
    THEN [found |-> 0, results |-> res_buf.data, table |-> t]
    ELSE batch_loop(arr, n, keys.data, num_keys, 0, 0, res_buf.data, t, tol, g, oob, allocOk)

not_stisla_batch_search(arr, n, keys, num_keys, res_buf, t, tol, g, oob, allocOk) ==
    IF arr.null \/ keys.null \/ res_buf.null \/ num_keys = 0
    THEN [found |-> 0, results |-> res_buf.data, table |-> t]
    ELSE batch_loop(arr, n, keys.data, num_keys, 0, 0, res_buf.data, t, tol, g, oob, allocOk)

-----------------------------------------------------------------------------
(* The callers' inputs *)

MaxSearches == 2
MaxBatch == 2

\* A uniform array (the benchmark's generator), a skewed one with repeated
\* values, a constant one, a small one, an empty one, and the uniform one
\* again in front of memory that holds AfterKey
Uniform == [i \in 1..SmallArrayLimit |-> 2 * (i - 1)]
Skewed == [i \in 1..(SmallArrayLimit + 1) |-> ((i - 1) * (i - 1)) \div 9]
Constant == [i \in 1..SmallArrayLimit |-> 7]
Small == [i \in 1..10 |-> 3 * (i - 1)]
\* A value the memory after an array may hold: a key above every element
AfterKey == 120
ArrayIds == 0..6
ArrayArg(a) ==
    CASE a = 0 -> NullArray
      [] a = 1 -> [null |-> FALSE, data |-> Uniform, after |-> 0]
      [] a = 2 -> [null |-> FALSE, data |-> Skewed, after |-> 0]
      [] a = 3 -> [null |-> FALSE, data |-> Constant, after |-> 0]
      [] a = 4 -> [null |-> FALSE, data |-> Small, after |-> 0]
      [] a = 5 -> [null |-> FALSE, data |-> <<>>, after |-> 0]
      [] OTHER -> [null |-> FALSE, data |-> Uniform, after |-> AfterKey]
\* The length the caller passes with the array
LenArg(a) == IF a = 0 THEN SmallArrayLimit ELSE Len(ArrayArg(a).data)

ProbePositions == {0, 5, 16, 30}
ExtraKeys == {-1, 3, AfterKey}
KeysOf(a) ==
    LET d == ArrayArg(a).data
    IN IF Len(d) = 0 THEN {3}
       ELSE {d[p + 1] : p \in {q \in ProbePositions : q < Len(d)}}
                \cup {d[Len(d)]} \cup ExtraKeys
\* The keys a batch draws from: an element, and a value most arrays lack
BatchKeysOf(a) ==
    LET d == ArrayArg(a).data
    IN IF Len(d) = 0 THEN {3} ELSE {d[6], 3}
KeyLists(a) ==
    UNION {[1..k -> BatchKeysOf(a)] : k \in 0..MaxBatch}
Tolerances == {0, 8, SIZE_MAX}
BatchTolerances == {0, 8}
Kinds == {0, 1, 2, 3, 7}

\* What an anchor slot that was never written can hold
ZeroAnchor == Anchor(0, 0)
StrayAnchors == {ZeroAnchor, Anchor(1, 40)}
\* What malloc can return for the buffer of a new table
FreshBuffers == {[k \in 1..InitialCapacity |-> g] : g \in StrayAnchors}

Present(a, key) == \E j \in 1..Len(ArrayArg(a).data) : ArrayArg(a).data[j] = key

Interpolated(arr, n) == ~arr.null /\ n >= SmallArrayLimit

\* The call reads an anchor slot outside the initialised part of the buffer
ReadsStrayAnchor(arr, n, key, t) ==
    /\ Interpolated(arr, n)
    /\ LET active == ActiveTable(arr, n, t)
       IN not_stisla_anchor_lower(active, key) + 1 >= Len(active.anchors)

NeedsAlloc(arr, n, t) ==
    \/ Interpolated(arr, n) /\ t.null
    \/ ~t.null /\ t.size >= t.capacity

\* The caller's result buffer before a call: nothing written yet
Unwritten == 0 - 1
FreshResults == [i \in 1..MaxBatch |-> Unwritten]

\* The caller between two calls
Idle == [op |-> "none", a |-> 0, key |-> 0, tol |-> 0, withTable |-> FALSE,
         ret |-> 0, keys |-> <<>>, num_keys |-> 0, keysNull |-> FALSE,
         resultsNull |-> FALSE]

-----------------------------------------------------------------------------
(* The state machine: one caller, one table, one result buffer.  A call is *)
(* one step; `call' holds its arguments and what it returned until the     *)
(* caller has taken the result (Return).                                   *)

Init ==
    /\ table \in {not_stisla_anchor_table_create(buf) : buf \in FreshBuffers}
    /\ call = Idle
    /\ results = FreshResults

\* One call of not_stisla_search: the table after it, and the call record
SearchStep(a, key, tol, withTable) ==
    LET arr == ArrayArg(a)
        n == LenArg(a)
        t == IF withTable THEN table ELSE NullTable
    IN \E g \in (IF ReadsStrayAnchor(arr, n, key, t) THEN StrayAnchors ELSE {ZeroAnchor}) :
       \E allocOk \in (IF NeedsAlloc(arr, n, t) THEN BOOLEAN ELSE {TRUE}) :
          LET res == not_stisla_search(arr, n, key, t, tol, g, arr.after, allocOk)
          IN /\ table' = IF withTable THEN res.table ELSE table
             /\ call' = [Idle EXCEPT !.op = "search", !.a = a, !.key = key, !.tol = tol,
                                     !.withTable = withTable, !.ret = res.ret]

Search(a, key, tol, withTable) ==
    /\ table.searches_performed < MaxSearches
    /\ SearchStep(a, key, tol, withTable)
    /\ UNCHANGED results

BatchSearch(a, keys, keysNull, resultsNull, tol, withTable) ==
    /\ table.searches_performed + Len(keys) <= MaxSearches
    /\ LET arr == ArrayArg(a)
           n == LenArg(a)
           t == IF withTable THEN table ELSE NullTable
           num_keys == IF keysNull THEN 1 ELSE Len(keys)
           keysArg == [null |-> keysNull, data |-> keys]
           resArg == [null |-> resultsNull, data |-> results]
           stray == Interpolated(arr, n) /\ ~withTable /\ ~keysNull /\ ~resultsNull
                        /\ num_keys > 0
       IN \E g \in (IF stray THEN StrayAnchors ELSE {ZeroAnchor}) :
             LET res == not_stisla_batch_search(arr, n, keysArg, num_keys, resArg, t, tol,
                                                g, arr.after, TRUE)
             IN /\ table' = IF withTable THEN res.table ELSE table
                /\ results' = res.results
                /\ call' = [Idle EXCEPT !.op = "batch", !.a = a, !.tol = tol,
                                        !.withTable = withTable, !.ret = res.found,
                                        !.keys = keys, !.num_keys = num_keys,
                                        !.keysNull = keysNull, !.resultsNull = resultsNull]

Reset ==
    /\ table' = not_stisla_anchor_table_reset(table)
    /\ call' = [Idle EXCEPT !.op = "reset", !.withTable = TRUE]
    /\ UNCHANGED results

Configure(kind) ==
    /\ LET r == not_stisla_init_for_dsmil(table, kind)
       IN /\ table' = r[2]
          /\ call' = [Idle EXCEPT !.op = "configure", !.withTable = TRUE, !.key = kind,
                                  !.ret = IF r[1] THEN 1 ELSE 0]
    /\ UNCHANGED results

\* The caller takes the result and hands a fresh buffer to its next call
Return ==
    /\ call.op # "none"
    /\ call' = Idle
    /\ results' = FreshResults
    /\ UNCHANGED table

\* The caller makes one call at a time
Idling == call.op = "none"

Next ==
    \/ Idling /\ \E a \in ArrayIds : \E key \in KeysOf(a) : \E tol \in Tolerances :
                   \E withTable \in BOOLEAN : Search(a, key, tol, withTable)
    \/ Idling /\ \E a \in ArrayIds : \E keys \in KeyLists(a) : \E tol \in BatchTolerances :
                   \E withTable \in BOOLEAN : \E resultsNull \in BOOLEAN :
                      BatchSearch(a, keys, FALSE, resultsNull, tol, withTable)
    \/ Idling /\ \E a \in ArrayIds : \E tol \in BatchTolerances : \E withTable \in BOOLEAN :
                   BatchSearch(a, <<>>, TRUE, FALSE, tol, withTable)
    \/ Idling /\ Reset
    \/ Idling /\ \E kind \in Kinds : Configure(kind)
    \/ Return

Spec == Init /\ [][Next]_vars

-----------------------------------------------------------------------------
(* A long session on one table: searches on arrays of 32 or more elements, *)
(* with the workload configured or the table reset in between.             *)

MaxSession == 8

SessionArrays == {2, 6}
SessionKeys(a) ==
    {ArrayArg(a).data[17], ArrayArg(a).data[LenArg(a)], AfterKey}
SessionTolerances == {0, 8}
SessionKinds == {NOT_STISLA_WORKLOAD_TELEMETRY, NOT_STISLA_WORKLOAD_IDS,
                 NOT_STISLA_WORKLOAD_OFFSETS, NOT_STISLA_WORKLOAD_EVENTS}

SessionSearch(a, key, tol) ==
    /\ table.searches_performed < MaxSession
    /\ SearchStep(a, key, tol, TRUE)
    /\ UNCHANGED results

SessionNext ==
    \/ Idling /\ \E a \in SessionArrays : \E key \in SessionKeys(a) :
                   \E tol \in SessionTolerances : SessionSearch(a, key, tol)
    \/ Idling /\ Reset
    \/ Idling /\ \E kind \in SessionKinds : Configure(kind)
    \/ Return

SessionSpec == Init /\ [][SessionNext]_vars

-----------------------------------------------------------------------------
(* A caller that searches the skewed array with one table, as often as it *)
(* likes, as the benchmark's query loop does.  Every call returns: the     *)
(* engine has no unbounded loop.  The search counter runs through the      *)
(* whole size type and wraps.                                              *)

SkewedArray == 2
LearnKeys == {Skewed[p] : p \in {1, 6, 17, 25, 33}}
LearnTolerances == {0, 4, 8}

LearnInit ==
    /\ table \in {not_stisla_init_for_dsmil(not_stisla_anchor_table_create(buf),
                                            NOT_STISLA_WORKLOAD_IDS)[2] :
                     buf \in FreshBuffers}
    /\ call = Idle
    /\ results = FreshResults

LearnSearch(key, tol) ==
    /\ SearchStep(SkewedArray, key, tol, TRUE)
    /\ UNCHANGED results

LearnNext ==
    \/ Idling /\ \E key \in LearnKeys : \E tol \in LearnTolerances : LearnSearch(key, tol)
    \/ Return

LearnSpec == LearnInit /\ [][LearnNext]_vars /\ WF_vars(Return)

-----------------------------------------------------------------------------
(* A caller that repeats searches on one array with one table and keeps    *)
(* the first result of every (key, tolerance) it has searched for.         *)

MaxRepeat == 3

RepeatArray == 6
RepeatKeys == {Uniform[6], Uniform[SmallArrayLimit], AfterKey}
RepeatTolerances == {0, 8}

RepeatInit ==
    /\ table \in {not_stisla_anchor_table_create(buf) : buf \in FreshBuffers}
    /\ call = Idle
    /\ results = [kt \in RepeatKeys \X RepeatTolerances |-> Unwritten]

RepeatSearch(key, tol) ==
    /\ table.searches_performed < MaxRepeat
    /\ SearchStep(RepeatArray, key, tol, TRUE)
    /\ results' = IF results[<<key, tol>>] = Unwritten
                  THEN [results EXCEPT ![<<key, tol>>] = call'.ret]
                  ELSE results

RepeatReturn ==
    /\ call.op # "none"
    /\ call' = Idle
    /\ UNCHANGED <<table, results>>

RepeatNext ==
    \/ Idling /\ \E key \in RepeatKeys : \E tol \in RepeatTolerances : RepeatSearch(key, tol)
    \/ RepeatReturn

RepeatSpec == RepeatInit /\ [][RepeatNext]_vars

-----------------------------------------------------------------------------
(* The interpolator on its own: the arguments are drawn at the start, one  *)
(* step applies the function.                                              *)

InterpValues == {INT64_MIN, INT64_MIN + 1, 0 - 1, 0, 10, 20, INT64_MAX - 1, INT64_MAX}
InterpKeys == InterpValues \cup {8, 15, 25}
InterpIndices == {0, 5, 10, 31}

InterpArgs ==
    {[op |-> "args", l_val |-> lv, r_val |-> rv, l_idx |-> li, r_idx |-> ri, key |-> k,
      ret |-> 0] :
        lv \in InterpValues, rv \in InterpValues, li \in InterpIndices,
        ri \in InterpIndices, k \in InterpKeys}

InterpInit ==
    /\ table = NullTable
    /\ results = FreshResults
    /\ call \in {c \in InterpArgs : c.l_val <= c.r_val /\ c.l_idx <= c.r_idx}

Interpolate ==
    /\ call.op = "args"
    /\ call' = [call EXCEPT !.op = "interpolate",
                            !.ret = not_stisla_interpolate(call.l_val, call.r_val,
                                                           call.l_idx, call.r_idx, call.key)]
    /\ UNCHANGED <<table, results>>

InterpNext == Interpolate

InterpSpec == InterpInit /\ [][InterpNext]_vars

-----------------------------------------------------------------------------
(* The search on arrays of fewer than 32 elements, sorted or not: the      *)
(* array and the key are drawn at the start, one step runs the search.     *)

MaxScanLen == 9

ScanValues == {0, 1}
ScanKeys == {0, 1, 2}
\* Every array over ScanValues of up to MaxScanLen elements, and the arrays
\* of SmallArrayLimit - 1 elements that hold at most one 1
ScanArrays ==
    UNION {[1..len -> ScanValues] : len \in 1..MaxScanLen}
        \cup {[i \in 1..(SmallArrayLimit - 1) |-> IF i = p THEN 1 ELSE 0] :
                 p \in 0..(SmallArrayLimit - 1)}

ScanInit ==
    /\ table = NullTable
    /\ results = FreshResults
    /\ call \in {[op |-> "scan_args", data |-> d, key |-> k, ret |-> 0] :
                    d \in ScanArrays, k \in ScanKeys}

Scan ==
    /\ call.op = "scan_args"
    /\ call' = [call EXCEPT !.op = "scan",
                            !.ret = not_stisla_search(
                                        [null |-> FALSE, data |-> call.data, after |-> 0],
                                        Len(call.data), call.key, table, 0, ZeroAnchor, 0,
                                        TRUE).ret]
    /\ UNCHANGED <<table, results>>

ScanNext == Scan

ScanSpec == ScanInit /\ [][ScanNext]_vars

-----------------------------------------------------------------------------
(* The anchor locator on its own: a table of strictly ascending anchors    *)
(* and a key at or above the first anchor are drawn at the start, one step *)
(* runs not_stisla_anchor_lower.                                           *)

\* The largest anchor count a learning cap allows
MaxLocatorAnchors == MaxAnchors(NOT_STISLA_WORKLOAD_OFFSETS)

LocatorStrides == {1, 3}
LocatorOffsets == {0 - 5, 0}

\* The capacity a table that holds c anchors has grown to (lines 214-215)
RECURSIVE CapacityFor(_, _)
CapacityFor(c, capacity) ==
    IF c <= capacity THEN capacity ELSE CapacityFor(c, capacity * 2)

\* c anchors with values first, first + stride, ... at the indices
\* 0, 2, 4, ...; the slots above c were never written
LocatorTable(c, first, stride) ==
    [null |-> FALSE,
     anchors |-> [k \in 1..CapacityFor(c, InitialCapacity) |->
                     IF k <= c THEN Anchor(first + stride * (k - 1), 2 * (k - 1))
                     ELSE ZeroAnchor],
     capacity |-> CapacityFor(c, InitialCapacity),
     size |-> c,
     searches_performed |-> 0,
     workload_type |-> NOT_STISLA_WORKLOAD_OFFSETS]

\* Every key from the first anchor's value to one above the last one's
LocatorKeys(t) == t.anchors[1].v .. (t.anchors[t.size].v + 1)

LocatorInit ==
    /\ table \in {LocatorTable(c, first, stride) :
                     c \in 1..MaxLocatorAnchors, first \in LocatorOffsets,
                     stride \in LocatorStrides}
    /\ results = FreshResults
    /\ call \in {[op |-> "locate_args", key |-> x, ret |-> 0] : x \in LocatorKeys(table)}

Locate ==
    /\ call.op = "locate_args"
    /\ call' = [call EXCEPT !.op = "locate",
                            !.ret = not_stisla_anchor_lower(table, call.key)]
    /\ UNCHANGED <<table, results>>

LocatorNext == Locate

LocatorSpec == LocatorInit /\ [][LocatorNext]_vars

-----------------------------------------------------------------------------
(* The bounded local search on its own: a sorted array, a window           *)
(* 0 <= lo <= hi < n and a key are drawn at the start, one step runs       *)
(* not_stisla_local_search.                                                *)

MaxWindowLen == 5

WindowValues == {0, 1, 2}
WindowKeys == {0 - 1, 0, 1, 2, 3}
\* Every ascending array over WindowValues of up to MaxWindowLen elements
WindowArrays ==
    {d \in UNION {[1..len -> WindowValues] : len \in 1..MaxWindowLen} :
        \A j \in 1..(Len(d) - 1) : d[j] <= d[j + 1]}

WindowInit ==
    /\ table = NullTable
    /\ results = FreshResults
    /\ call \in {[op |-> "window_args", data |-> d, lo |-> lo, hi |-> hi, key |-> k,
                   ret |-> 0] :
                    d \in WindowArrays, lo \in 0..(MaxWindowLen - 1),
                    hi \in 0..(MaxWindowLen - 1), k \in WindowKeys}
    /\ call.lo <= call.hi
    /\ call.hi < Len(call.data)

WindowSearch ==
    /\ call.op = "window_args"
    /\ call' = [call EXCEPT !.op = "window",
                            !.ret = not_stisla_local_search(call.data, Len(call.data),
                                                            call.lo, call.hi, call.key, 0)]
    /\ UNCHANGED <<table, results>>

WindowNext == WindowSearch

WindowSpec == WindowInit /\ [][WindowNext]_vars

-----------------------------------------------------------------------------
(* The window computation on its own: anchor indices l_i <= r_i, a         *)
(* prediction between them and a tolerance are drawn at the start, one     *)
(* step computes the window.                                               *)

ToleranceIndices == {0, 1, 5, 16, 31, SIZE_MAX - 1}
ToleranceValues == {0, 1, 8, 31, SIZE_MAX - 5, SIZE_MAX}

ToleranceInit ==
    /\ table = NullTable
    /\ results = FreshResults
    /\ call \in {[op |-> "tolerance_args", pred |-> pred, l_i |-> l_i, r_i |-> r_i,
                   tol |-> tol, lo |-> 0, hi |-> 0] :
                    pred \in ToleranceIndices, l_i \in ToleranceIndices,
                    r_i \in ToleranceIndices, tol \in ToleranceValues}
    /\ call.l_i <= call.pred
    /\ call.pred <= call.r_i

ComputeWindow ==
    /\ call.op = "tolerance_args"
    /\ LET w == search_window(call.pred, call.l_i, call.r_i, call.tol)
       IN call' = [call EXCEPT !.op = "tolerance", !.lo = w.lo, !.hi = w.hi]
    /\ UNCHANGED <<table, results>>

ToleranceNext == ComputeWindow

ToleranceSpec == ToleranceInit /\ [][ToleranceNext]_vars

-----------------------------------------------------------------------------
(* The learning step on its own: a table of ascending anchors, a found     *)
(* (value, index), a prediction and a tolerance are drawn at the start,    *)
(* one step runs not_stisla_learn_anchor.                                  *)

InsertKinds == {WORKLOAD_NONE, NOT_STISLA_WORKLOAD_TELEMETRY, NOT_STISLA_WORKLOAD_IDS,
                NOT_STISLA_WORKLOAD_OFFSETS, NOT_STISLA_WORKLOAD_EVENTS}
InsertStride == 3
\* c anchors with the values 0, 3, 6, ... in a table of the given workload
InsertTable(c, kind) ==
    [LocatorTable(c, 0, InsertStride) EXCEPT !.workload_type = kind]
\* Values below, between, equal to and above the anchors of t
InsertValues(t) ==
    {0 - 1, 0, 1, InsertStride, InsertStride + 1,
     t.anchors[t.size].v, t.anchors[t.size].v + 1}
InsertIndices == {1, 7, 40}
InsertTolerances == {0, 6, 8, SIZE_MAX}

InsertInit ==
    /\ table \in {InsertTable(c, kind) : c \in 1..MaxLocatorAnchors, kind \in InsertKinds}
    /\ table.size <= MaxAnchors(table.workload_type)
    /\ results = FreshResults
    /\ call \in {[op |-> "learn_args", value |-> value, index |-> index, pred |-> pred,
                   tol |-> tol, allocOk |-> allocOk] :
                    value \in InsertValues(table), index \in InsertIndices,
                    pred \in InsertIndices, tol \in InsertTolerances,
                    allocOk \in BOOLEAN}
    /\ call.allocOk \/ table.size >= table.capacity

LearnStep ==
    /\ call.op = "learn_args"
    /\ table' = not_stisla_learn_anchor(table, call.value, call.index, call.pred,
                                        call.tol, call.allocOk)
    /\ call' = [call EXCEPT !.op = "learned"]
    /\ UNCHANGED results

InsertNext == LearnStep

InsertSpec == InsertInit /\ [][InsertNext]_vars

-----------------------------------------------------------------------------
(* A caller that searches without a table and watches the allocator: the   *)
(* call record also holds the number of anchor buffers that are allocated  *)
(* and not released, and keeps it from call to call.                       *)

MaxLive == 3

EphemeralArrays == {0, 1, 3, 4, 6}
EphemeralTolerances == {0, 8}

\* The anchor buffers a search has allocated and not released when it
\* returns.  The call-local table gets its buffer from the malloc of line
\* 264; neither return after it (lines 265, 304) is preceded by a free, and
\* the learning step is not run on the call-local table.
ephemeral_buffers_left(arr, n, t, allocOk) ==
    IF Interpolated(arr, n) /\ t.null /\ allocOk THEN 1 ELSE 0

EphemeralIdle(live) ==
    [op |-> "none", a |-> 0, key |-> 0, tol |-> 0, ret |-> 0, live_buffers |-> live]

EphemeralInit ==
    /\ table = NullTable
    /\ results = FreshResults
    /\ call = EphemeralIdle(0)

EphemeralSearch(a, key, tol) ==
    /\ call.op = "none"
    /\ call.live_buffers < MaxLive
    /\ LET arr == ArrayArg(a)
           n == LenArg(a)
       IN \E g \in (IF ReadsStrayAnchor(arr, n, key, NullTable) THEN StrayAnchors
                     ELSE {ZeroAnchor}) :
          \E allocOk \in (IF NeedsAlloc(arr, n, NullTable) THEN BOOLEAN ELSE {TRUE}) :
             call' = [op |-> "search", a |-> a, key |-> key, tol |-> tol,
                      ret |-> not_stisla_search(arr, n, key, NullTable, tol, g,
                                                arr.after, allocOk).ret,
                      live_buffers |-> call.live_buffers
                                          + ephemeral_buffers_left(arr, n, NullTable,
                                                                   allocOk)]
    /\ UNCHANGED <<table, results>>

EphemeralReturn ==
    /\ call.op # "none"
    /\ call' = EphemeralIdle(call.live_buffers)
    /\ UNCHANGED <<table, results>>

EphemeralNext ==
    \/ \E a \in EphemeralArrays : \E key \in KeysOf(a) : \E tol \in EphemeralTolerances :
          EphemeralSearch(a, key, tol)
    \/ EphemeralReturn

EphemeralSpec == EphemeralInit /\ [][EphemeralNext]_vars

-----------------------------------------------------------------------------
(* A caller that runs single searches for keys[k], keys[k+1], ... in order *)
(* on one table, as the benchmark's query loop does, and collects the      *)
(* results.                                                                *)

RECURSIVE SequentialSearches(_, _, _, _, _, _, _, _)
SequentialNext(arr, n, keys, k, res, tol, g, acc) ==
    SequentialSearches(arr, n, keys, k + 1, res.table, tol, g, Append(acc, res.ret))

SequentialSearches(arr, n, keys, k, t, tol, g, acc) ==
    IF k > Len(keys) THEN [results |-> acc, table |-> t]
    ELSE SequentialNext(arr, n, keys, k,
                        not_stisla_search(arr, n, keys[k], t, tol, g, arr.after, TRUE),
                        tol, g, acc)

-----------------------------------------------------------------------------
(* Properties.  Every array of the model is sorted ascending.              *)

\* C1: completeness of search.  A search on a non-null sorted array of
\* length n >= 1 for a key that occurs in the array returns an index j < n
\* with array[j] = key, and never NOT_FOUND, whatever the tolerance and the
\* table argument.
C1_SearchFindsPresentKey ==
    (/\ call.op = "search"
     /\ ~ArrayArg(call.a).null
     /\ LenArg(call.a) >= 1
     /\ Present(call.a, call.key))
        => (/\ call.ret < LenArg(call.a)
            /\ ArrayArg(call.a).data[call.ret + 1] = call.key)

\* C2: soundness of search.  Any result of a search other than NOT_FOUND is
\* an index j < n with array[j] = key, so a key that does not occur in the
\* array yields NOT_FOUND.
C2_ResultIsIndexOfKey ==
    (call.op = "search" /\ call.ret # NOT_STISLA_NOT_FOUND)
        => (/\ ~ArrayArg(call.a).null
            /\ call.ret < LenArg(call.a)
            /\ ArrayArg(call.a).data[call.ret + 1] = call.key)

\* C3 as stated: in every reachable state the anchor values of the table
\* are strictly ascending, with no duplicate values.
C3_AnchorsStrictlyAscending ==
    \A k \in 1..(table.size - 1) : table.anchors[k].v < table.anchors[k + 1].v

\* C3 as the code keeps it: in every reachable state the anchor values of
\* the table are ascending, anchors[k].value <= anchors[k+1].value for every
\* adjacent pair; equal values can sit side by side.
C3_AnchorsAscending ==
    \A k \in 1..(table.size - 1) : table.anchors[k].v <= table.anchors[k + 1].v

\* A search has seeded the table from an array whose elements are all equal
C3_EqualSeedsReached ==
    /\ call.op = "search"
    /\ table.size = 2
    /\ table.anchors[1].v = table.anchors[2].v
    /\ table.anchors[1].i < table.anchors[2].i

C5_PredictionWithinAnchors ==
    (call.op = "interpolate" /\ call.l_idx <= call.r_idx /\ call.l_val <= call.r_val)
        => (/\ call.l_idx <= call.ret
            /\ call.ret <= call.r_idx
            /\ (call.l_val = call.r_val => call.ret = call.l_idx))

\* C6 as stated: every search given the caller's table that returns a found
\* index increases searches_performed by exactly one, and every search that
\* returns NOT_FOUND leaves it unchanged.
C6_CounterCountsEveryHit ==
    [][(call'.op = "search" /\ call'.withTable)
          => table'.searches_performed =
                IF call'.ret # NOT_STISLA_NOT_FOUND
                THEN ToSize(table.searches_performed + 1)
                ELSE table.searches_performed]_vars

\* C6 as the code keeps it: a search given the caller's table increases
\* searches_performed by exactly one when the array has 32 or more elements
\* and the search returns a found index; it leaves the counter unchanged
\* when it returns NOT_FOUND or when the array has fewer than 32 elements,
\* found or not.
C6_CounterCountsInterpolatedHits ==
    [][(call'.op = "search" /\ call'.withTable)
          => table'.searches_performed =
                IF call'.ret # NOT_STISLA_NOT_FOUND /\ LenArg(call'.a) >= SmallArrayLimit
                THEN ToSize(table.searches_performed + 1)
                ELSE table.searches_performed]_vars

\* A search on an array of 32 or more elements has found its key and has
\* been counted on the caller's table
C6_CountedHitReached ==
    /\ call.op = "search"
    /\ call.withTable
    /\ call.ret # NOT_STISLA_NOT_FOUND
    /\ LenArg(call.a) >= SmallArrayLimit
    /\ table.searches_performed = MaxSearches

\* C7: learning makes the table grow.  A caller that keeps running
\* successful searches on the skewed array against one table sees the
\* anchor count rise above the two seeds and reach the maximum of the
\* active workload type.
C7_RepeatedHitsReachTheCap ==
    []<>(call.op = "search" /\ call.ret # NOT_STISLA_NOT_FOUND)
        => <>(table.size > 2 /\ table.size = MaxAnchors(table.workload_type))

\* C8: seeding happens once.  The first search on an array of 32 or more
\* elements with a table holding zero anchors leaves exactly the anchors
\* (array[0], 0) and (array[n-1], n-1); a search on a table that already
\* holds anchors keeps every one of them.
C8_SeededOnceAndKept ==
    [][(call'.op = "search" /\ call'.withTable /\ ~ArrayArg(call'.a).null
            /\ LenArg(call'.a) >= SmallArrayLimit)
          => IF table.size = 0
             THEN SubSeq(table'.anchors, 1, table'.size)
                     = <<Anchor(ArrayArg(call'.a).data[1], 0),
                         Anchor(ArrayArg(call'.a).data[LenArg(call'.a)],
                                LenArg(call'.a) - 1)>>
             ELSE \A k \in 1..table.size :
                     \E m \in 1..table'.size : table'.anchors[m] = table.anchors[k]]_vars

\* C9: repeatable results.  Every repetition of a search with the same
\* array, key and tolerance on the same table returns what the first such
\* search returned, whatever was searched in between.
C9_SameResultAsFirstCall ==
    call.op = "search" => results[<<call.key, call.tol>>] = call.ret

\* C10: invalid inputs.  A search with a null array or n = 0 returns
\* NOT_FOUND and leaves the table unchanged; a batch search with a null
\* array, null key list, null result buffer or num_keys = 0 returns 0 and
\* writes neither the result buffer nor the table.
C10_InvalidInputsChangeNothing ==
    [][/\ (call'.op = "search" /\ (ArrayArg(call'.a).null \/ LenArg(call'.a) = 0))
            => (call'.ret = NOT_STISLA_NOT_FOUND /\ table' = table /\ results' = results)
       /\ (call'.op = "batch" /\ (\/ ArrayArg(call'.a).null
                                  \/ call'.keysNull
                                  \/ call'.resultsNull
                                  \/ call'.num_keys = 0))
            => (call'.ret = 0 /\ table' = table /\ results' = results)]_vars

\* A batch search was given keys and a seeded table but no result buffer
C10_BatchWithoutBufferReached ==
    /\ call.op = "batch"
    /\ call.resultsNull
    /\ call.withTable
    /\ call.num_keys > 0
    /\ LenArg(call.a) >= SmallArrayLimit
    /\ ~ArrayArg(call.a).null
    /\ table.size = 2

\* C11: batch consistency.  After a batch search with a non-null array, key
\* list and result buffer and num_keys >= 1, the returned count is the
\* number of positions k < num_keys whose result is not NOT_FOUND, and all
\* num_keys result entries have been written.
C11_FoundCountMatchesResults ==
    (/\ call.op = "batch"
     /\ ~ArrayArg(call.a).null
     /\ ~call.keysNull
     /\ ~call.resultsNull
     /\ call.num_keys >= 1)
        => (/\ \A k \in 1..call.num_keys : results[k] # Unwritten
            /\ call.ret = Cardinality({k \in 1..call.num_keys :
                                          results[k] # NOT_STISLA_NOT_FOUND}))

\* A batch of two keys has found the first key and missed the second
C11_OneOfTwoFoundReached ==
    /\ call.op = "batch"
    /\ call.num_keys = 2
    /\ call.ret = 1
    /\ results[1] < LenArg(call.a)
    /\ results[2] = NOT_STISLA_NOT_FOUND

\* C12: batch search is the sequential composition of single searches.
\* After a valid batch search, results[k] and the table are what single
\* searches for keys[0], keys[1], ... in order on the same table produce; a
\* key that is not found does not stop the later keys.
C12_BatchIsSequentialSearch ==
    [][(/\ call'.op = "batch"
        /\ ~ArrayArg(call'.a).null
        /\ ~call'.keysNull
        /\ ~call'.resultsNull
        /\ call'.num_keys >= 1)
          => \E g \in StrayAnchors :
                /\ \A k \in 1..call'.num_keys :
                      results'[k] = SequentialSearches(
                                        ArrayArg(call'.a), LenArg(call'.a), call'.keys, 1,
                                        IF call'.withTable THEN table ELSE NullTable,
                                        call'.tol, g, <<>>).results[k]
                /\ call'.withTable
                      => table' = SequentialSearches(
                                      ArrayArg(call'.a), LenArg(call'.a), call'.keys, 1,
                                      table, call'.tol, g, <<>>).table]_vars

\* A batch on the caller's table has missed its first key and found its
\* second
C12_FoundAfterMissReached ==
    /\ call.op = "batch"
    /\ call.withTable
    /\ call.num_keys = 2
    /\ results[1] = NOT_STISLA_NOT_FOUND
    /\ results[2] < LenArg(call.a)
    /\ table.searches_performed >= 1

\* C13: the small-array scan equals a linear scan.  For every array of
\* 1 <= n < 32 elements, sorted or not, and every key, the search returns
\* the lowest index i with array[i] = key, or NOT_FOUND when no element
\* equals the key.
C13_ScanReturnsLowestIndex ==
    (call.op = "scan" /\ Len(call.data) >= 1 /\ Len(call.data) < SmallArrayLimit)
        => IF \E i \in 1..Len(call.data) : call.data[i] = call.key
           THEN /\ call.ret < Len(call.data)
                /\ call.data[call.ret + 1] = call.key
                /\ \A i \in 1..call.ret : call.data[i] # call.key
           ELSE call.ret = NOT_STISLA_NOT_FOUND

\* An unsorted array with a duplicated key has been scanned past its last
\* full chunk
C13_UnsortedRemainderHitReached ==
    /\ call.op = "scan"
    /\ Len(call.data) = 7
    /\ call.key = 0
    /\ call.data = <<1, 1, 1, 1, 1, 0, 0>>
    /\ call.ret = 5

\* C14: the small-array path does not touch the table.  A search on an
\* array of fewer than 32 elements leaves every field of the supplied table
\* unchanged (anchors, count, capacity, searches_performed, workload type),
\* whether or not the key is found, and never seeds an empty table.
C14_SmallSearchKeepsTable ==
    [][(/\ call'.op = "search"
        /\ ~ArrayArg(call'.a).null
        /\ LenArg(call'.a) < SmallArrayLimit)
          => table' = table]_vars

\* A search on the small array with an empty table has found its key
C14_SmallHitOnEmptyTableReached ==
    /\ call.op = "search"
    /\ call.withTable
    /\ LenArg(call.a) >= 1
    /\ LenArg(call.a) < SmallArrayLimit
    /\ call.ret # NOT_STISLA_NOT_FOUND
    /\ table.size = 0

\* C15: reset and configure.  A reset sets the anchor count and
\* searches_performed to 0 and keeps the workload type; configure(kind)
\* sets the workload type to kind, sets the anchor count and
\* searches_performed to 0 and reports success; a search on an array of 32
\* or more elements with a table left empty by either seeds the table from
\* that array's endpoints.
C15_ResetAndConfigure ==
    [][/\ call'.op = "reset"
            => (/\ table'.size = 0
                /\ table'.searches_performed = 0
                /\ table'.workload_type = table.workload_type)
       /\ call'.op = "configure"
            => (/\ table'.size = 0
                /\ table'.searches_performed = 0
                /\ table'.workload_type = call'.key
                /\ call'.ret = 1)
       /\ (/\ call'.op = "search"
           /\ call'.withTable
           /\ ~ArrayArg(call'.a).null
           /\ LenArg(call'.a) >= SmallArrayLimit
           /\ table.size = 0)
            => (/\ table'.size >= 2
                /\ \E m \in 1..table'.size :
                      table'.anchors[m] = Anchor(ArrayArg(call'.a).data[1], 0)
                /\ \E m \in 1..table'.size :
                      table'.anchors[m] = Anchor(ArrayArg(call'.a).data[LenArg(call'.a)],
                                                 LenArg(call'.a) - 1))]_vars

\* A table configured for ids and seeded by a search has been
\* reset: the seeds are stale, the workload type is kept
C15_ResetOfUsedTableReached ==
    /\ call.op = "reset"
    /\ table.size = 0
    /\ table.searches_performed = 0
    /\ table.workload_type = NOT_STISLA_WORKLOAD_IDS
    /\ table.anchors[2].i = SmallArrayLimit - 1

\* C16: in every reachable state the workload type of the table is either
\* unconfigured or one of telemetry, ids, offsets, events, whatever integer
\* kind not_stisla_init_for_dsmil was called with.
C16_WorkloadTypeInDomain ==
    table.workload_type \in {WORKLOAD_NONE,
                             NOT_STISLA_WORKLOAD_TELEMETRY, NOT_STISLA_WORKLOAD_IDS,
                             NOT_STISLA_WORKLOAD_OFFSETS, NOT_STISLA_WORKLOAD_EVENTS}

\* C17: a failed allocation never changes a search result.  Every search
\* call, on the caller's table or without one, returns what it returns when
\* its allocations succeed, and the caller's table is either the table of
\* the successful call or that table without the newly learned anchor:
\* anchors, count and capacity as they were before the allocation.
C17_AllocationFailureKeepsResult ==
    [][call'.op = "search"
          => \E g \in StrayAnchors :
                LET arr == ArrayArg(call'.a)
                    n == LenArg(call'.a)
                    t == IF call'.withTable THEN table ELSE NullTable
                    ok == not_stisla_search(arr, n, call'.key, t, call'.tol, g,
                                            arr.after, TRUE)
                    before == IF Interpolated(arr, n) THEN ActiveTable(arr, n, t) ELSE t
                IN /\ call'.ret = ok.ret
                   /\ call'.withTable
                         => \/ table' = ok.table
                            \/ /\ table'.anchors = before.anchors
                               /\ table'.size = before.size
                               /\ table'.capacity = before.capacity]_vars

\* C18: lower-bound contract of the anchor locator.  For a table of 1 to 20
\* anchors strictly ascending by value and a key at or above the first
\* anchor's value, the returned position p is an anchor of the table with
\* anchors[p].value <= key, and either p is the last position or
\* key < anchors[p+1].value.
C18_LocatorIsLowerBound ==
    call.op = "locate"
        => /\ call.ret < table.size
           /\ table.anchors[call.ret + 1].v <= call.key
           /\ \/ call.ret = table.size - 1
              \/ call.key < table.anchors[call.ret + 2].v

\* C19: the engine reads only anchors and array cells that exist.  In every
\* search call that reaches the interpolated path (n >= 32), the located
\* anchor position and the position after it are below the table's anchor
\* count, and every array index the local search reads is below n.
C19_ReadsOnlyWhatExists ==
    [][(/\ call'.op = "search"
        /\ Interpolated(ArrayArg(call'.a), LenArg(call'.a))
        /\ call'.withTable \/ call'.ret # NOT_STISLA_NOT_FOUND)
          => LET arr == ArrayArg(call'.a)
                 n == LenArg(call'.a)
                 active == ActiveTable(arr, n, IF call'.withTable THEN table ELSE NullTable)
                 a_idx == not_stisla_anchor_lower(active, call'.key)
             IN /\ a_idx < active.size
                /\ a_idx + 1 < active.size
                /\ \A g \in StrayAnchors :
                      LET w == SearchWindow(active, call'.key, call'.tol, g)
                      IN \A j \in LocalSearchReads(arr.data, n, w.lo, w.hi, call'.key,
                                                    arr.after) : j < n]_vars

\* C20: the bounded local search is exact on its window.  For a sorted
\* array and a window 0 <= lo <= hi < n, single-element windows included,
\* it returns an index in [lo, hi] that holds the key when the key occurs
\* in array[lo..hi] and NOT_FOUND otherwise, and its bounds check rejects
\* the window exactly when lo > hi, array[lo] > key or array[hi] < key.
C20_LocalSearchExactOnWindow ==
    call.op = "window"
        => /\ IF \E j \in call.lo..call.hi : call.data[j + 1] = call.key
              THEN /\ call.ret \in call.lo..call.hi
                   /\ call.data[call.ret + 1] = call.key
              ELSE call.ret = NOT_STISLA_NOT_FOUND
           /\ local_search_rejects(call.data, Len(call.data), call.lo, call.hi,
                                    call.key, 0)
                  <=> \/ call.lo > call.hi
                      \/ call.data[call.lo + 1] > call.key
                      \/ call.data[call.hi + 1] < call.key

\* C21: the search window is [max(pred - tol, l.index), min(pred + tol,
\* r.index)] computed on mathematical integers, or [l.index, r.index] when
\* that window is inverted, for every tolerance of the size type; it lies
\* within [l.index, r.index] and contains pred.
C21_WindowIsClampedTolerance ==
    call.op = "tolerance"
        => LET below == call.pred - call.tol
               above == call.pred + call.tol
               lo == IF below > call.l_i THEN below ELSE call.l_i
               hi == IF above < call.r_i THEN above ELSE call.r_i
           IN /\ call.lo = (IF lo > hi THEN call.l_i ELSE lo)
              /\ call.hi = (IF lo > hi THEN call.r_i ELSE hi)
              /\ call.l_i <= call.lo
              /\ call.lo <= call.pred
              /\ call.pred <= call.hi
              /\ call.hi <= call.r_i

C23_AnchorsDescribeArray ==
    LET arr == ArrayArg(RepeatArray)
        n == LenArg(RepeatArray)
    IN /\ \A k \in 1..table.size :
             /\ table.anchors[k].i < n
             /\ arr.data[table.anchors[k].i + 1] = table.anchors[k].v
       /\ \A k \in 1..(table.size - 1) : table.anchors[k].i <= table.anchors[k + 1].i

\* C24: a search without a table leaves nothing behind.  After any sequence
\* of such calls the number of live anchor buffers is what it was before
\* the first one: every buffer of a call-local table is released before
\* the call returns.
C24_NoBufferLeftBehind ==
    call.live_buffers = 0

====
